---- MODULE Spec2Model ----
(***************************************************************************)
(* Model of pkg/common/resources/resources.go: the Quantity calculators    *)
(* and the sparse Resource vector operations built on them.                *)
(*                                                                         *)
(* Quantity is a two's complement machine word.  TLC's integers are 32 bit *)
(* wide, so the word is IntWidth bits wide instead of 64: MinInt64 and     *)
(* MaxInt64 are the bounds of that word, every calculation wraps modulo    *)
(* 2^IntWidth exactly where the Go code wraps modulo 2^64, and MaxInt32 is *)
(* the bound of the half width word.  All quantities of the model are far  *)
(* below 2^53, so float64(v) is exact for every quantity v of the model.   *)
(***************************************************************************)
EXTENDS Integers, Sequences, FiniteSets, TLC

VARIABLES
    heap,    \* the allocated Resource objects: heap[p] is the map of *Resource p
    argL,    \* the caller's first *Resource (an address, or Nil)
    argR,    \* the caller's second *Resource
    argT,    \* the caller's third *Resource: the total of the share functions
    argA,    \* first Quantity argument of a calculator
    argB,    \* second Quantity argument of a calculator, or the int64 ratio
    argF,    \* float64 ratio argument
    goarch,  \* the build target: decides an out of range float to int conversion
    iter,    \* the order in which this run's range loops visit the keys of a map
    call,    \* the function that was called last ("" before the first call)
    ret,     \* what that call returned
    msg,     \* the error returned by the call, when it returns one
    calls,   \* number of calls made so far
    orig     \* the heap as it was before the first call

vars == <<heap, argL, argR, argT, argA, argB, argF, goarch, iter, call, ret, msg,
          calls, orig>>

----------------------------------------------------------------------------
(* Quantity: type Quantity int64, as an IntWidth bit word.                 *)

IntWidth == 16

Modulus == 2^IntWidth

MaxInt64 == 2^(IntWidth - 1) - 1

MinInt64 == -(2^(IntWidth - 1))

MaxInt32 == 2^((IntWidth \div 2) - 1) - 1

Quantity == MinInt64..MaxInt64

\* the value an integer has once stored in a Quantity (two's complement wrap)
Wrap(x) == ((x - MinInt64) % Modulus) + MinInt64

Abs(x) == IF x < 0 THEN -x ELSE x

\* a * b modulo 2^IntWidth for a, b in 0..Modulus-1, never leaving 31 bits
RECURSIVE MulMod(_, _)
MulMod(a, b) ==
    IF b = 0 THEN 0
    ELSE (2 * MulMod(a, b \div 2) + (b % 2) * a) % Modulus

\* Go's valA + valB, -valB, valA * valB and valA / valB on Quantity
GoAdd(a, b) == Wrap(a + b)

GoNeg(a) == Wrap(-a)

GoMul(a, b) == Wrap(MulMod(a % Modulus, b % Modulus))

\* integer division truncates toward zero; MinInt64 / -1 wraps to MinInt64
GoDiv(a, b) ==
    LET q == Abs(a) \div Abs(b)
    IN  Wrap(IF (a < 0) = (b < 0) THEN q ELSE -q)

Max(a, b) == IF a >= b THEN a ELSE b

Min(a, b) == IF a <= b THEN a ELSE b

----------------------------------------------------------------------------
(* The wrapping safe calculators.                                          *)

addValNoCheck(valA, valB) == GoAdd(valA, valB)

addVal(valA, valB) ==
    LET result == GoAdd(valA, valB)
    IN  IF (result < valA) # (valB < 0)
        THEN IF valA < 0 THEN MinInt64 ELSE MaxInt64
        ELSE result

subVal(valA, valB) == addVal(valA, GoNeg(valB))

mulValNoSpecial(valA, valB) ==
    IF valA = 0 \/ valB = 0 THEN 0
    ELSE LET result == GoMul(valA, valB)
         IN  IF GoDiv(result, valB) # valA
             THEN IF (valA < 0) # (valB < 0) THEN MinInt64 ELSE MaxInt64
             ELSE result

mulVal(valA, valB) ==
    IF valA = 0 \/ valB = 0 THEN 0
    ELSE LET result == GoMul(valA, valB)
         IN  IF GoDiv(result, valB) # valA \/ (valA = MinInt64 /\ valB = -1)
             THEN IF (valA < 0) # (valB < 0) THEN MinInt64 ELSE MaxInt64
             ELSE result

(* A float64 ratio is the dyadic number n / 2^k, held as [n |-> n, k |-> k].*)
(* float64(value) * ratio is value * n / 2^k, exact because |value * n| is  *)
(* below 2^53.                                                              *)

\* float64(math.MaxInt64): 2^63 - 1 is no float64 and the constant rounds to 2^63
MaxInt64AsFloat == MaxInt64 + 1

\* float64(math.MinInt64): -2^63, exact
MinInt64AsFloat == MinInt64

\* Quantity(result) for the float num / den: the fraction is dropped (toward
\* zero).  A value outside the word is implementation dependent: a build for
\* amd64 gives the "integer indefinite" value MinInt64, one for arm64 saturates.
Float64ToQuantity(num, den) ==
    LET q == Abs(num) \div den
        t == IF num < 0 THEN -q ELSE q
    IN  IF t > MaxInt64 THEN (IF goarch = "amd64" THEN MinInt64 ELSE MaxInt64)
        ELSE IF t < MinInt64 THEN MinInt64
        ELSE t

mulValRatio(value, ratio) ==
    IF value = 0 \/ ratio.n = 0 THEN 0
    ELSE LET num == value * ratio.n
             den == 2^ratio.k
         IN  IF num > MaxInt64AsFloat * den THEN MaxInt64
             ELSE IF num < MinInt64AsFloat * den THEN MinInt64
             ELSE Float64ToQuantity(num, den)

----------------------------------------------------------------------------
(* Resource: a *Resource is an address into heap, or Nil; the object at an *)
(* address is its Resources map, a function from the keys set to Quantity. *)

\* the nil *Resource
Nil == 0

\* var Zero = NewResource(): the first object allocated
Zero == 1

EmptyMap == [k \in {} |-> 0]

\* m[k] of a Go map: the zero value when k is not set
Get(m, k) == IF k \in DOMAIN m THEN m[k] ELSE 0

NewResource(h) == [h |-> Append(h, EmptyMap), p |-> Len(h) + 1]

\* the object allocated by NewResource, then filled with the map m
NewWith(h, m) ==
    LET n == NewResource(h)
    IN  [h |-> [n.h EXCEPT ![n.p] = m], p |-> n.p]

CloneShared(h, r) == [h |-> h, p |-> r]

Clone(h, r) ==
    IF r = Nil THEN [h |-> h, p |-> Nil]
    ELSE NewWith(h, [k \in DOMAIN h[r] |-> h[r][k]])

Prune(h, r) ==
    IF r = Nil THEN h
    ELSE [h EXCEPT ![r] = [k \in {x \in DOMAIN h[r] : h[r][x] # 0} |-> h[r][k]]]

\* for k, v := range add { out[k] = addVal(out[k], v) }
RangeAdd(out, add) ==
    [k \in DOMAIN out \cup DOMAIN add |->
        IF k \in DOMAIN add THEN addVal(Get(out, k), add[k]) ELSE out[k]]

\* for k, v := range sub { out[k] = subVal(out[k], v) }
RangeSub(out, sub) ==
    [k \in DOMAIN out \cup DOMAIN sub |->
        IF k \in DOMAIN sub THEN subVal(Get(out, k), sub[k]) ELSE out[k]]

AddTo(h, r, add) ==
    IF r # Nil
    THEN IF add = Nil THEN h ELSE [h EXCEPT ![r] = RangeAdd(h[r], h[add])]
    ELSE h

SubFrom(h, r, sub) ==
    IF r # Nil
    THEN IF sub = Nil THEN h ELSE [h EXCEPT ![r] = RangeSub(h[r], h[sub])]
    ELSE h

MultiplyTo(h, r, ratio) ==
    IF r # Nil
    THEN [h EXCEPT ![r] = [k \in DOMAIN h[r] |-> mulValRatio(h[r][k], ratio)]]
    ELSE h

AddNilRight(h, left, right) ==
    IF right = Nil THEN [h |-> h, p |-> Nil]
    ELSE LET l == IF left = Nil THEN Zero ELSE left
             c == Clone(h, l)
         IN  [h |-> [c.h EXCEPT ![c.p] = RangeAdd(c.h[c.p], c.h[right])], p |-> c.p]

Add(h, left, right) ==
    LET l == IF left = Nil THEN Zero ELSE left
    IN  IF right = Nil THEN Clone(h, l)
        ELSE LET c == Clone(h, l)
             IN  [h |-> [c.h EXCEPT ![c.p] = RangeAdd(c.h[c.p], c.h[right])],
                  p |-> c.p]

Sub(h, left, right) ==
    LET l == IF left = Nil THEN Zero ELSE left
    IN  IF right = Nil THEN Clone(h, l)
        ELSE LET c == Clone(h, l)
             IN  [h |-> [c.h EXCEPT ![c.p] = RangeSub(c.h[c.p], c.h[right])],
                  p |-> c.p]

SubOnlyExisting(h, base, delta) ==
    IF base = Nil \/ delta = Nil THEN Clone(h, base)
    ELSE NewWith(h, [k \in DOMAIN h[base] |->
                        subVal(h[base][k], Get(h[delta], k))])

AddOnlyExisting(h, base, delta) ==
    IF base = Nil \/ delta = Nil THEN Clone(h, base)
    ELSE NewWith(h, [k \in DOMAIN h[base] |->
                        addVal(h[base][k], Get(h[delta], k))])

\* out[k] = v of a Go map
Put(m, k, v) == [x \in DOMAIN m \cup {k} |-> IF x = k THEN v ELSE m[x]]

\* the keys of m in the order a range loop over m visits them
RangeKeys(m) == SelectSeq(iter, LAMBDA k : k \in DOMAIN m)

(* The message of subNonNegative is the sequence of the names appended to  *)
(* it: << >> is the empty string, <<k1, k2>> is                            *)
(* "resource quantity less than zero for: k1, k2".                         *)
RECURSIVE SubNonNegativeLoop(_, _, _, _)
SubNonNegativeLoop(out, message, sub, ks) ==
    IF ks = << >> THEN [out |-> out, message |-> message]
    ELSE LET k == Head(ks)
             d == subVal(Get(out, k), sub[k])
         IN  IF d < 0
             THEN SubNonNegativeLoop(Put(out, k, 0), Append(message, k), sub, Tail(ks))
             ELSE SubNonNegativeLoop(Put(out, k, d), message, sub, Tail(ks))

subNonNegative(h, left, right) ==
    LET l == IF left = Nil THEN Zero ELSE left
    IN  IF right = Nil
        THEN LET c == Clone(h, l) IN [h |-> c.h, p |-> c.p, message |-> << >>]
        ELSE LET c == Clone(h, l)
                 lp == SubNonNegativeLoop(c.h[c.p], << >>, c.h[right],
                                          RangeKeys(c.h[right]))
             IN  [h |-> [c.h EXCEPT ![c.p] = lp.out], p |-> c.p,
                  message |-> lp.message]

SubEliminateNegative(h, left, right) ==
    LET res == subNonNegative(h, left, right)
    IN  [h |-> res.h, p |-> res.p]

\* err is Nil, or errors.New(message) held as <<"error", message>>
SubErrorNegative(h, left, right) ==
    LET res == subNonNegative(h, left, right)
    IN  [h |-> res.h, p |-> res.p,
         err |-> IF res.message # << >> THEN <<"error", res.message>> ELSE Nil]

fitInNoFloor(h, r, smaller, skipUndef) ==
    LET rr == IF r = Nil THEN Zero ELSE r
    IN  IF smaller = Nil THEN TRUE
        ELSE \A k \in DOMAIN h[smaller] :
                \/ skipUndef /\ k \notin DOMAIN h[rr]
                \/ ~(h[smaller][k] > Get(h[rr], k))

fitIn(h, r, smaller, skipUndef) ==
    LET rr == IF r = Nil THEN Zero ELSE r
    IN  IF smaller = Nil THEN TRUE
        ELSE \A k \in DOMAIN h[smaller] :
                \/ skipUndef /\ k \notin DOMAIN h[rr]
                \/ ~(h[smaller][k] > Max(0, Get(h[rr], k)))

FitIn(h, r, smaller) == fitIn(h, r, smaller, FALSE)

FitInMaxUndef(h, r, smaller) == fitIn(h, r, smaller, TRUE)

Equals(h, left, right) ==
    IF left = right THEN TRUE
    ELSE IF left = Nil \/ right = Nil THEN FALSE
    ELSE /\ \A k \in DOMAIN h[left] : Get(h[right], k) = h[left][k]
         /\ \A k \in DOMAIN h[right] : Get(h[left], k) = h[right][k]

DeepEqualsNoLen(h, left, right) ==
    IF left = right THEN TRUE
    ELSE IF left = Nil \/ right = Nil THEN FALSE
    ELSE \A k \in DOMAIN h[left] :
            k \in DOMAIN h[right] /\ h[right][k] = h[left][k]

DeepEquals(h, left, right) ==
    IF left = right THEN TRUE
    ELSE IF left = Nil \/ right = Nil THEN FALSE
    ELSE IF Cardinality(DOMAIN h[right]) # Cardinality(DOMAIN h[left]) THEN FALSE
    ELSE \A k \in DOMAIN h[left] :
            k \in DOMAIN h[right] /\ h[right][k] = h[left][k]

MatchAny(h, r, other) ==
    IF r = Nil \/ other = Nil THEN FALSE
    ELSE IF r = other THEN TRUE
    ELSE \E k \in DOMAIN h[r] : k \in DOMAIN h[other]

IsZero(h, zero) ==
    IF zero = Nil THEN TRUE
    ELSE \A k \in DOMAIN h[zero] : h[zero][k] = 0

IsEmpty(h, r) == r = Nil \/ Cardinality(DOMAIN h[r]) = 0

HasNegativeValue(h, r) ==
    IF r = Nil THEN FALSE
    ELSE \E k \in DOMAIN h[r] : h[r][k] < 0

EqualsOrEmpty(h, left, right) ==
    IF IsZero(h, left) /\ IsZero(h, right) THEN TRUE
    ELSE Equals(h, left, right)

Multiply(h, base, ratio) ==
    LET n == NewResource(h)
    IN  IF base = Nil \/ ratio = 0 THEN n
        ELSE [h |-> [n.h EXCEPT ![n.p] =
                        [k \in DOMAIN h[base] |-> mulVal(h[base][k], ratio)]],
              p |-> n.p]

MultiplyBy(h, base, ratio) ==
    LET n == NewResource(h)
    IN  IF base = Nil \/ ratio.n = 0 THEN n
        ELSE [h |-> [n.h EXCEPT ![n.p] =
                        [k \in DOMAIN h[base] |-> mulValRatio(h[base][k], ratio)]],
              p |-> n.p]

StrictlyGreaterThan(h, larger, smaller) ==
    LET l == h[IF larger = Nil THEN Zero ELSE larger]
        s == h[IF smaller = Nil THEN Zero ELSE smaller]
    IN  IF \E k \in DOMAIN l : Get(s, k) > l[k] THEN FALSE
        ELSE IF \E k \in DOMAIN s : Get(l, k) < s[k] THEN FALSE
        ELSE \/ \E k \in DOMAIN l : Get(s, k) # l[k]
             \/ \E k \in DOMAIN s : Get(l, k) # s[k]

StrictlyGreaterThanOrEquals(h, larger, smaller) ==
    LET l == h[IF larger = Nil THEN Zero ELSE larger]
        s == h[IF smaller = Nil THEN Zero ELSE smaller]
    IN  IF \E k \in DOMAIN l : Get(s, k) > l[k] THEN FALSE
        ELSE IF \E k \in DOMAIN s : Get(l, k) < s[k] THEN FALSE
        ELSE TRUE

\* the comparison with the types of smaller that r lacks left out of smaller
StrictlyGreaterThanOnlyExistingOfR(h, r, smaller) ==
    LET l == IF r = Nil THEN EmptyMap ELSE h[r]
        s == IF smaller = Nil THEN EmptyMap ELSE h[smaller]
        shared == DOMAIN l \cap DOMAIN s
    IN  IF shared = {} THEN l # EmptyMap /\ \A k \in DOMAIN l : l[k] > 0
        ELSE /\ \A k \in shared : l[k] >= s[k]
             /\ \E k \in shared : l[k] # s[k]

StrictlyGreaterThanOnlyExisting(h, r, smaller) ==
    LET rr == IF r = Nil THEN Zero ELSE r
        ss == IF smaller = Nil THEN Zero ELSE smaller
        l == h[rr]
        s == h[ss]
        isAllPositiveInLarger == ~(\E k \in DOMAIN l : IsEmpty(h, ss) /\ l[k] <= 0)
        atleastOneResourcePresent == \E k \in DOMAIN l : k \in DOMAIN s
        notEqual == \E k \in DOMAIN l : k \in DOMAIN s /\ s[k] # l[k]
    IN  IF \E k \in DOMAIN l : k \in DOMAIN s /\ s[k] > l[k] THEN FALSE
        ELSE IF IsEmpty(h, ss) /\ ~IsEmpty(h, rr) THEN isAllPositiveInLarger
        ELSE IF atleastOneResourcePresent THEN notEqual
        ELSE ~IsEmpty(h, rr) /\ ~IsEmpty(h, ss)

StrictlyGreaterThanZero(h, larger) ==
    IF larger = Nil THEN FALSE
    ELSE IF \E k \in DOMAIN h[larger] : h[larger][k] < 0 THEN FALSE
    ELSE \E k \in DOMAIN h[larger] : h[larger][k] > 0

\* for k, v := range a { if val, ok := b[k]; ok { out[k] = min(v, val) } else { out[k] = v } }
RangeMin(out, a, b) ==
    [k \in DOMAIN out \cup DOMAIN a |->
        IF k \in DOMAIN a
        THEN IF k \in DOMAIN b THEN Min(a[k], b[k]) ELSE a[k]
        ELSE out[k]]

ComponentWiseMin(h, left, right) ==
    LET n == NewResource(h)
    IN  IF right = Nil /\ left = Nil THEN [h |-> n.h, p |-> Nil]
        ELSE IF left = Nil THEN Clone(n.h, right)
        ELSE IF right = Nil THEN Clone(n.h, left)
        ELSE [h |-> [n.h EXCEPT ![n.p] =
                        RangeMin(RangeMin(n.h[n.p], h[left], h[right]),
                                 h[right], h[left])],
              p |-> n.p]

MergeIfNotPresent(h, left, right) ==
    IF right = Nil /\ left = Nil THEN [h |-> h, p |-> Nil]
    ELSE IF left = Nil THEN Clone(h, right)
    ELSE IF right = Nil THEN Clone(h, left)
    ELSE LET c == Clone(h, left)
         IN  [h |-> [c.h EXCEPT ![c.p] =
                        [k \in DOMAIN c.h[c.p] \cup DOMAIN h[right] |->
                            IF k \in DOMAIN h[right] /\ k \notin DOMAIN h[left]
                            THEN h[right][k] ELSE c.h[c.p][k]]],
              p |-> c.p]

ComponentWiseMinOnlyExisting(h, left, right) ==
    LET n == NewResource(h)
    IN  IF right = Nil /\ left = Nil THEN [h |-> n.h, p |-> Nil]
        ELSE IF left = Nil THEN [h |-> n.h, p |-> Nil]
        ELSE IF right = Nil THEN Clone(n.h, left)
        ELSE [h |-> [n.h EXCEPT ![n.p] = RangeMin(n.h[n.p], h[left], h[right])],
              p |-> n.p]

\* the max loop with a key that b lacks keeping the value of a
RangeMaxPresent(out, a, b) ==
    [k \in DOMAIN out \cup DOMAIN a |->
        IF k \in DOMAIN a
        THEN IF k \in DOMAIN b THEN Max(a[k], b[k]) ELSE a[k]
        ELSE out[k]]

\* for k, v := range a { out[k] = max(v, b[k]) }
RangeMax(out, a, b) ==
    [k \in DOMAIN out \cup DOMAIN a |->
        IF k \in DOMAIN a THEN Max(a[k], Get(b, k)) ELSE out[k]]

ComponentWiseMax(h, left, right) ==
    LET n == NewResource(h)
    IN  IF left # Nil /\ right # Nil
        THEN [h |-> [n.h EXCEPT ![n.p] =
                        RangeMax(RangeMax(n.h[n.p], h[left], h[right]),
                                 h[right], h[left])],
              p |-> n.p]
        ELSE n

----------------------------------------------------------------------------
(* float64 arithmetic of CalculateAbsUsedCapacity.  A positive float64 is  *)
(* [m |-> its MantBits significand bits, first bit 1, e |-> the exponent   *)
(* of that first bit]; every operation rounds to nearest, ties to even, as *)
(* IEEE 754 binary64 does.                                                 *)

MantBits == 53

\* the binary digits of n > 0, first digit 1
IntBits(n) ==
    LET len == Cardinality({j \in 0..30 : 2^j <= n})
    IN  [i \in 1..len |-> (n \div 2^(len - i)) % 2]

\* the n binary digits of d < 2^n
FixBits(d, n) == [i \in 1..n |-> (d \div 2^(n - i)) % 2]

RECURSIVE BitsToInt(_)
BitsToInt(bs) ==
    IF bs = << >> THEN 0
    ELSE 2 * BitsToInt(SubSeq(bs, 1, Len(bs) - 1)) + bs[Len(bs)]

\* (r * 2^i) % c, never leaving 31 bits (c is a positive quantity)
RECURSIVE ShiftMod(_, _, _)
ShiftMod(r, i, c) ==
    IF i <= 13 THEN (r * 2^i) % c
    ELSE ShiftMod((r * 2^13) % c, i - 13, c)

\* the first n bits of the binary fraction r / c (r < c), and what remains
LongDiv(r, c, n) ==
    [bits |-> [i \in 1..n |-> IF 2 * ShiftMod(r, i - 1, c) >= c THEN 1 ELSE 0],
     rem |-> ShiftMod(r, n, c)]

\* the number of zero bits that start the binary fraction r / c (0 < r < c)
LeadZeros(r, c) == Cardinality({j \in 1..30 : r <= (c - 1) \div 2^j})

\* bits + 1, for bits that are not all ones
IncBits(bs) ==
    LET last == CHOOSE i \in 1..Len(bs) :
                    bs[i] = 0 /\ \A j \in (i + 1)..Len(bs) : bs[j] = 1
    IN  [i \in 1..Len(bs) |-> IF i < last THEN bs[i] ELSE IF i = last THEN 1 ELSE 0]

\* the float64 nearest to the exact value whose bits, from exponent e down,
\* are bits (more than MantBits of them) followed by a non zero tail iff sticky
RoundNearestEven(bits, sticky, e) ==
    LET keep == SubSeq(bits, 1, MantBits)
        guard == bits[MantBits + 1]
        tail == sticky \/ \E i \in (MantBits + 2)..Len(bits) : bits[i] = 1
        up == guard = 1 /\ (tail \/ keep[MantBits] = 1)
    IN  IF ~up THEN [m |-> keep, e |-> e]
        ELSE IF \A i \in 1..MantBits : keep[i] = 1
        THEN [m |-> [i \in 1..MantBits |-> IF i = 1 THEN 1 ELSE 0], e |-> e + 1]
        ELSE [m |-> IncBits(keep), e |-> e]

\* float64(u) / float64(c) for quantities u > 0 and c > 0
Float64Div(u, c) ==
    LET int == u \div c
        r == u % c
    IN  IF int > 0
        THEN LET ib == IntBits(int)
                 ld == LongDiv(r, c, MantBits + 1 - Len(ib))
             IN  RoundNearestEven(ib \o ld.bits, ld.rem # 0, Len(ib) - 1)
        ELSE LET z == LeadZeros(r, c)
                 ld == LongDiv(r * 2^z, c, MantBits + 1)
             IN  RoundNearestEven(ld.bits, ld.rem # 0, -(z + 1))

\* the bits of bs * k for MantBits bits bs and an integer 2 <= k < 2^10: the
\* product of the three limbs of bs (13, 20 and 20 bits) with the carries added
MulBits(bs, k) ==
    LET lo == BitsToInt(SubSeq(bs, MantBits - 19, MantBits)) * k
        mid == BitsToInt(SubSeq(bs, MantBits - 39, MantBits - 20)) * k + lo \div 2^20
        hi == BitsToInt(SubSeq(bs, 1, MantBits - 40)) * k + mid \div 2^20
    IN  IntBits(hi) \o FixBits(mid % 2^20, 20) \o FixBits(lo % 2^20, 20)

\* f * float64(k) for an integer 2 <= k < 2^10
Float64MulInt(f, k) ==
    LET prod == MulBits(f.m, k)
    IN  RoundNearestEven(prod, FALSE, f.e + (Len(prod) - MantBits))

\* int64(f): the fraction is dropped
Float64Trunc(f) ==
    IF f.e < 0 THEN 0 ELSE BitsToInt(SubSeq(f.m, 1, f.e + 1))

\* f > float64(n) for an integer n >= 0
Float64Greater(f, n) ==
    \/ Float64Trunc(f) > n
    \/ Float64Trunc(f) = n /\ \E i \in 1..MantBits : i > f.e + 1 /\ f.m[i] = 1

\* div := (float64(usedResource) / float64(capResource)) * 100, capped
Percent(usedResource, capResource) ==
    LET div == Float64MulInt(Float64Div(usedResource, capResource), 100)
    IN  IF Float64Greater(div, MaxInt32) THEN MaxInt32 ELSE Float64Trunc(div)

AbsUsed(usedResource, capResource) ==
    IF usedResource <= 0 THEN 0
    ELSE IF capResource <= 0 THEN 100
    ELSE Percent(usedResource, capResource)

CalculateAbsUsedCapacity(h, capacity, used) ==
    LET n == NewResource(h)
    IN  IF capacity = Nil \/ used = Nil THEN n
        ELSE [h |-> [n.h EXCEPT ![n.p] =
                        [k \in DOMAIN h[capacity] \cap DOMAIN h[used] |->
                            AbsUsed(h[used][k], h[capacity][k])]],
              p |-> n.p]

----------------------------------------------------------------------------
(* Signed float64 values of the ratio and share functions: s is the sign   *)
(* (0 for the value 0) and, for a non zero value, m and e are the          *)
(* significand and exponent of its magnitude.                              *)

Float64Zero == [s |-> 0, m |-> << >>, e |-> 0]

\* float64(u) / float64(c) for quantities u and c # 0
Float64Quo(u, c) ==
    IF u = 0 THEN Float64Zero
    ELSE LET f == Float64Div(Abs(u), Abs(c))
         IN  [s |-> IF (u < 0) = (c < 0) THEN 1 ELSE -1, m |-> f.m, e |-> f.e]

\* float64(v)
Float64(v) == Float64Quo(v, 1)

\* |a| < |b| for non zero a and b
Float64MagLess(a, b) ==
    \/ a.e < b.e
    \/ /\ a.e = b.e
       /\ \E i \in 1..MantBits :
             /\ a.m[i] < b.m[i]
             /\ \A j \in 1..(i - 1) : a.m[j] = b.m[j]

\* a < b
Float64Less(a, b) ==
    IF a.s # b.s THEN a.s < b.s
    ELSE IF a.s = 0 THEN FALSE
    ELSE IF a.s = 1 THEN Float64MagLess(a, b)
    ELSE Float64MagLess(b, a)

----------------------------------------------------------------------------
(* DominantResourceType.                                                   *)

\* temp: the ratio of one resource type
DominantRatio(usedVal, capVal) ==
    IF capVal = 0
    THEN IF usedVal = 0 THEN Float64(0) ELSE Float64(1)
    ELSE Float64Quo(usedVal, capVal)

\* the range loop over r.Resources, from the state (div, dominant)
RECURSIVE DominantLoop(_, _, _, _, _)
DominantLoop(used, cap, ks, div, dominant) ==
    IF ks = << >> THEN dominant
    ELSE LET name == Head(ks)
         IN  IF name \notin DOMAIN cap
             THEN DominantLoop(used, cap, Tail(ks), div, dominant)
             ELSE LET temp == DominantRatio(used[name], cap[name])
                  IN  IF ~Float64Less(temp, div)
                      THEN DominantLoop(used, cap, Tail(ks), temp, name)
                      ELSE DominantLoop(used, cap, Tail(ks), div, dominant)

DominantResourceType(h, r, capacity) ==
    IF r = Nil \/ capacity = Nil THEN ""
    ELSE DominantLoop(h[r], h[capacity], RangeKeys(h[r]), Float64Zero, "")

----------------------------------------------------------------------------
(* FitInScore.  The score is kept as the exact fraction n / d of the sum    *)
(* the code accumulates in a float64: rounding moves neither a sum of non  *)
(* negative terms to or from 0 nor a sum across a whole number, which is   *)
(* all that is asked of a score here.                                      *)

\* the whole number v as a score
Score(v) == [n |-> v, d |-> 1]

\* score + n / d
ScoreAdd(score, n, d) ==
    IF score.d = d THEN [n |-> score.n + n, d |-> d]
    ELSE [n |-> score.n * d + n * score.d, d |-> score.d * d]

\* the range loop over fit.Resources
RECURSIVE FitInScoreLoop(_, _, _, _)
FitInScoreLoop(res, fit, ks, score) ==
    IF ks = << >> THEN score
    ELSE LET fitVal == fit[Head(ks)]
             resVal == Get(res, Head(ks))
         IN  IF fitVal <= 0
             THEN FitInScoreLoop(res, fit, Tail(ks), score)
             ELSE IF resVal <= 0
             THEN FitInScoreLoop(res, fit, Tail(ks), ScoreAdd(score, 1, 1))
             ELSE IF fitVal > resVal
             THEN FitInScoreLoop(res, fit, Tail(ks),
                                 ScoreAdd(score, GoAdd(fitVal, GoNeg(resVal)), fitVal))
             ELSE FitInScoreLoop(res, fit, Tail(ks), score)

\* FitInScore with a nil receiver scored 0
FitInScoreNilFits(h, r, fit) ==
    IF r = Nil \/ fit = Nil THEN Score(0)
    ELSE FitInScoreLoop(h[r], h[fit], RangeKeys(h[fit]), Score(0))

FitInScore(h, r, fit) ==
    IF r = Nil \/ fit = Nil
    THEN IF fit # Nil THEN Score(Cardinality(DOMAIN h[fit])) ELSE Score(0)
    ELSE FitInScoreLoop(h[r], h[fit], RangeKeys(h[fit]), Score(0))

----------------------------------------------------------------------------
(* The shares: getShares, compareShares, CompUsageRatio and FairnessRatio. *)
(* A list of shares is a sequence of signed float64 values.                *)

\* shares with element idx set to x (shares[idx] = x of a 0 based slice)
SetShare(shares, idx, x) == [shares EXCEPT ![idx + 1] = x]

\* the range loop over res.Resources, from the state (shares, idx)
RECURSIVE GetSharesLoop(_, _, _, _, _, _)
GetSharesLoop(h, res, total, ks, shares, idx) ==
    IF ks = << >> THEN shares
    ELSE LET k == Head(ks)
             v == res[k]
         IN  IF v = 0
             THEN GetSharesLoop(h, res, total, Tail(ks), shares, idx)
             ELSE IF total = Nil \/ Get(h[total], k) = 0
             THEN GetSharesLoop(h, res, total, Tail(ks),
                                SetShare(shares, idx, Float64(v)), idx + 1)
             ELSE GetSharesLoop(h, res, total, Tail(ks),
                                SetShare(shares, idx, Float64Quo(v, h[total][k])),
                                idx + 1)

\* x put into the ascending list sorted, before the first element above it
RECURSIVE SortedInsert(_, _)
SortedInsert(sorted, x) ==
    IF sorted = << >> THEN <<x>>
    ELSE IF Float64Less(x, Head(sorted)) THEN <<x>> \o sorted
    ELSE <<Head(sorted)>> \o SortedInsert(Tail(sorted), x)

\* sort.Float64s left undone
UnsortedFloat64s(shares) == shares

\* sort.Float64s(shares): the shares in increasing order
RECURSIVE SortFloat64s(_)
SortFloat64s(shares) ==
    IF shares = << >> THEN << >>
    ELSE SortedInsert(SortFloat64s(Tail(shares)), Head(shares))

getShares(h, res, total) ==
    IF res = Nil \/ DOMAIN h[res] = {} THEN << >>
    ELSE SortFloat64s(
            GetSharesLoop(h, h[res], total, RangeKeys(h[res]),
                          [i \in 1..Cardinality(DOMAIN h[res]) |-> Float64Zero], 0))

\* the loop over what is left of one list: 1 for a first non zero share
\* above 0, -1 for one below 0, 0 when all are 0
RECURSIVE LeftOverShares(_, _)
LeftOverShares(shares, idx) ==
    IF idx < 0 THEN 0
    ELSE IF shares[idx + 1].s > 0 THEN 1
    ELSE IF shares[idx + 1].s < 0 THEN -1
    ELSE LeftOverShares(shares, idx - 1)

\* the loops of compareShares from the indexes lIdx and rIdx
RECURSIVE CompareSharesLoop(_, _, _, _)
CompareSharesLoop(lshares, rshares, lIdx, rIdx) ==
    IF rIdx >= 0 /\ lIdx >= 0
    THEN IF Float64Less(rshares[rIdx + 1], lshares[lIdx + 1]) THEN 1
         ELSE IF Float64Less(lshares[lIdx + 1], rshares[rIdx + 1]) THEN -1
         ELSE CompareSharesLoop(lshares, rshares, lIdx - 1, rIdx - 1)
    ELSE IF lIdx = -1 /\ rIdx = -1 THEN 0
    ELSE IF lIdx >= 0 THEN LeftOverShares(lshares, lIdx)
    ELSE -LeftOverShares(rshares, rIdx)

\* compareShares without the loop over what is left of the right shares
compareSharesLeftOnly(lshares, rshares) ==
    LET rs == IF Len(rshares) > Len(lshares)
              THEN SubSeq(rshares, Len(rshares) - Len(lshares) + 1, Len(rshares))
              ELSE rshares
    IN  CompareSharesLoop(lshares, rs, Len(lshares) - 1, Len(rs) - 1)

compareShares(lshares, rshares) ==
    CompareSharesLoop(lshares, rshares, Len(lshares) - 1, Len(rshares) - 1)

CompUsageRatio(h, left, right, total) ==
    compareShares(getShares(h, left, total), getShares(h, right, total))

\* the largest of the sorted shares, 0 when there is none
LargestShare(shares) ==
    IF Len(shares) # 0 THEN shares[Len(shares)] ELSE Float64Zero

(* The float64 FairnessRatio returns is one of: the 1 returned for a NaN   *)
(* ratio, an infinity with its sign, and the quotient of two shares, which *)
(* is kept as the pair of them.                                            *)
FairnessRatio(h, left, right, total) ==
    LET lshare == LargestShare(getShares(h, left, total))
        rshare == LargestShare(getShares(h, right, total))
    IN  IF rshare.s = 0
        THEN IF lshare.s = 0 THEN [class |-> "one"]
             ELSE [class |-> "inf", s |-> lshare.s]
        ELSE [class |-> "quotient", num |-> lshare, den |-> rshare]

----------------------------------------------------------------------------
(* The inputs of the runs.                                                 *)

Keys == {"cpu", "memory"}

\* every order a range loop can visit the keys in
Orders == {o \in [1..Cardinality(Keys) -> Keys] : \A i, j \in 1..Cardinality(Keys) :
                                                     i # j => o[i] # o[j]}

\* every map from some of the keys to the values vals
Maps(vals) == UNION {[ks -> vals] : ks \in SUBSET Keys}

Half == 2^(IntWidth \div 2)

\* quantities at and next to the ends of the word and to the square root of
\* its size, where a sum or a product starts to wrap
ScalarVals ==
    {MinInt64, MinInt64 + 1, -Half, -3, -2, -1, 0, 1, 2, 3, Half \div 2, Half - 1,
     Half, 2^(IntWidth - 2), MaxInt64 - 1, MaxInt64}

\* float64 ratios n / 2^k
Ratios ==
    {[n |-> n, k |-> 0] : n \in -3..3} \cup {[n |-> n, k |-> 1] : n \in {-3, -1, 1, 3}}

GoArchs == {"amd64", "arm64"}

----------------------------------------------------------------------------
(* SpecScalar: one call of a calculator on the quantities argA and argB,   *)
(* or of a vector function that applies it to {cpu: argA}.                 *)

InitScalar ==
    /\ argA \in ScalarVals
    /\ argB \in ScalarVals
    /\ argF \in Ratios
    /\ goarch \in GoArchs
    /\ argT = Nil
    /\ heap = <<EmptyMap, [k \in {"cpu"} |-> argA], [k \in {"cpu"} |-> argB]>>
    /\ argL = 2
    /\ argR = 3
    /\ iter \in {o \in Orders : o[1] = "cpu"}
    /\ call = ""
    /\ ret = Nil
    /\ msg = Nil
    /\ calls = 0
    /\ orig = heap

\* the bookkeeping of a call: its name, the count, and the caller's arguments
Called(name) ==
    /\ call' = name
    /\ calls' = calls + 1
    /\ UNCHANGED <<argL, argR, argT, argA, argB, argF, goarch, iter, orig>>

CallAddVal ==
    /\ calls = 0
    /\ ret' = addVal(argA, argB)
    /\ Called("addVal")
    /\ UNCHANGED <<heap, msg>>

CallSubVal ==
    /\ calls = 0
    /\ ret' = subVal(argA, argB)
    /\ Called("subVal")
    /\ UNCHANGED <<heap, msg>>

CallMulVal ==
    /\ calls = 0
    /\ ret' = mulVal(argA, argB)
    /\ Called("mulVal")
    /\ UNCHANGED <<heap, msg>>

CallMulValRatio ==
    /\ calls = 0
    /\ ret' = mulValRatio(argA, argF)
    /\ Called("mulValRatio")
    /\ UNCHANGED <<heap, msg>>

\* r.SubFrom(sub) with r = {cpu: argA} and sub = {cpu: argB}
CallSubFromScalar ==
    /\ calls = 0
    /\ heap' = SubFrom(heap, argL, argR)
    /\ ret' = argL
    /\ Called("SubFrom")
    /\ UNCHANGED msg

\* Multiply(base, ratio) with base = {cpu: argA} and ratio = argB
CallMultiplyScalar ==
    /\ calls = 0
    /\ LET res == Multiply(heap, argL, argB)
       IN  heap' = res.h /\ ret' = res.p
    /\ Called("Multiply")
    /\ UNCHANGED msg

CallMultiplyByScalar ==
    /\ calls = 0
    /\ LET res == MultiplyBy(heap, argL, argF)
       IN  heap' = res.h /\ ret' = res.p
    /\ Called("MultiplyBy")
    /\ UNCHANGED msg

CallMultiplyToScalar ==
    /\ calls = 0
    /\ heap' = MultiplyTo(heap, argL, argF)
    /\ ret' = argL
    /\ Called("MultiplyTo")
    /\ UNCHANGED msg

NextScalar ==
    \/ CallAddVal
    \/ CallSubVal
    \/ CallMulVal
    \/ CallMulValRatio
    \/ CallSubFromScalar
    \/ CallMultiplyScalar
    \/ CallMultiplyByScalar
    \/ CallMultiplyToScalar

SpecScalar == InitScalar /\ [][NextScalar]_vars

\* the integer x, or the end of the word it lies beyond
Clamp(x) == IF x > MaxInt64 THEN MaxInt64 ELSE IF x < MinInt64 THEN MinInt64 ELSE x

\* C1: addVal(a, b) is a + b when that is a Quantity, MaxInt64 when a + b is
\* above MaxInt64 and MinInt64 when it is below MinInt64: never a wrapped sum.
C1_AddValClamps == call = "addVal" => ret = Clamp(argA + argB)

C1_Witness == call = "addVal" /\ argA + argB > MaxInt64 /\ ret = MaxInt64

\* C2: subVal(a, b) is a - b when that is a Quantity and the nearest end of
\* the word otherwise; SubFrom does the same to each entry.
C2_SubValClamps ==
    /\ call = "subVal" => ret = Clamp(argA - argB)
    /\ call = "SubFrom" => heap[argL] = [k \in {"cpu"} |-> Clamp(argA - argB)]

\* the product a * b clamped to the word, computed without leaving 31 bits
ClampedProduct(a, b) ==
    IF a = 0 \/ b = 0 THEN 0
    ELSE IF (a < 0) = (b < 0)
    THEN IF Abs(a) <= MaxInt64 \div Abs(b) THEN a * b ELSE MaxInt64
    ELSE IF Abs(a) <= Abs(MinInt64) \div Abs(b) THEN a * b ELSE MinInt64

\* C3: mulVal(a, b) is 0 when an operand is 0, a * b when that is a Quantity,
\* MaxInt64 when a * b overflows with operands of the same sign and MinInt64
\* when it overflows with operands of different sign; MinInt64 * -1 and
\* -1 * MinInt64 are MaxInt64, and Multiply({cpu: a}, b) is {cpu: mulVal(a, b)}.
C3_MulValClamps ==
    /\ call = "mulVal" => ret = ClampedProduct(argA, argB)
    /\ call = "mulVal" /\ {argA, argB} = {MinInt64, -1} => ret = MaxInt64
    /\ call = "Multiply" =>
          heap[ret] = IF argB = 0 THEN EmptyMap
                      ELSE [k \in {"cpu"} |-> ClampedProduct(argA, argB)]

C3_Witness ==
    /\ call = "Multiply" /\ argA = MinInt64 /\ argB = -1
    /\ heap[ret] = [k \in {"cpu"} |-> MaxInt64]

\* value * ratio rounded down and clamped to the word
FlooredProduct(value, ratio) ==
    LET num == value * ratio.n
        den == 2^ratio.k
    IN  IF num > MaxInt64 * den THEN MaxInt64
        ELSE IF num < MinInt64 * den THEN MinInt64
        ELSE num \div den

\* C4: for a non zero value and ratio, mulValRatio(value, ratio) (and each
\* entry of MultiplyBy and MultiplyTo) is the largest integer not above
\* value * ratio, also when that is negative; a product above MaxInt64 gives
\* MaxInt64 and one below MinInt64 gives MinInt64.
C4_MulValRatioFloors ==
    argA # 0 /\ argF.n # 0 =>
        /\ call = "mulValRatio" => ret = FlooredProduct(argA, argF)
        /\ call \in {"MultiplyBy", "MultiplyTo"} =>
              heap[ret] = [k \in {"cpu"} |-> FlooredProduct(argA, argF)]

----------------------------------------------------------------------------
(* SpecAlgebra: one call of a vector function on the vectors argL and      *)
(* argR.  Each is nil, the shared Zero, or a vector of the caller's own;   *)
(* argR may also be the very vector argL is.                               *)

\* the values of the entries: both ends of the word and small values of each sign
VecVals == {MinInt64, -1, 0, 1, 2, MaxInt64}

\* the heap and the two arguments for the choice (kind, map) of each argument
InitArgs(lkind, lmap, rkind, rmap) ==
    /\ heap = <<EmptyMap>> \o (IF lkind = "own" THEN <<lmap>> ELSE << >>)
                           \o (IF rkind = "own" THEN <<rmap>> ELSE << >>)
    /\ argL = (CASE lkind = "nil" -> Nil [] lkind = "zero" -> Zero [] OTHER -> 2)
    /\ argR = (CASE rkind = "nil" -> Nil [] rkind = "zero" -> Zero
                 [] rkind = "same" -> argL [] OTHER -> Len(heap))

InitAlgebra ==
    /\ \E lkind \in {"nil", "zero", "own"}, rkind \in {"nil", "zero", "same", "own"} :
          \E lmap \in (IF lkind = "own" THEN Maps(VecVals) ELSE {EmptyMap}),
             rmap \in (IF rkind = "own" THEN Maps(VecVals) ELSE {EmptyMap}) :
                InitArgs(lkind, lmap, rkind, rmap)
    /\ iter \in Orders
    /\ argA = 0
    /\ argB = 0
    /\ argF = [n |-> 0, k |-> 0]
    /\ goarch = "amd64"
    /\ argT = Nil
    /\ call = ""
    /\ ret = Nil
    /\ msg = Nil
    /\ calls = 0
    /\ orig = heap

CallFitIn ==
    /\ calls = 0
    /\ ret' = FitIn(heap, argL, argR)
    /\ Called("FitIn")
    /\ UNCHANGED <<heap, msg>>

CallFitInMaxUndef ==
    /\ calls = 0
    /\ ret' = FitInMaxUndef(heap, argL, argR)
    /\ Called("FitInMaxUndef")
    /\ UNCHANGED <<heap, msg>>

CallAdd ==
    /\ calls = 0
    /\ LET res == Add(heap, argL, argR)
       IN  heap' = res.h /\ ret' = res.p
    /\ Called("Add")
    /\ UNCHANGED msg

CallSub ==
    /\ calls = 0
    /\ LET res == Sub(heap, argL, argR)
       IN  heap' = res.h /\ ret' = res.p
    /\ Called("Sub")
    /\ UNCHANGED msg

CallSubEliminateNegative ==
    /\ calls = 0
    /\ LET res == SubEliminateNegative(heap, argL, argR)
       IN  heap' = res.h /\ ret' = res.p
    /\ Called("SubEliminateNegative")
    /\ UNCHANGED msg

CallSubErrorNegative ==
    /\ calls = 0
    /\ LET res == SubErrorNegative(heap, argL, argR)
       IN  heap' = res.h /\ ret' = res.p /\ msg' = res.err
    /\ Called("SubErrorNegative")

CallEquals ==
    /\ calls = 0
    /\ ret' = Equals(heap, argL, argR)
    /\ Called("Equals")
    /\ UNCHANGED <<heap, msg>>

CallDeepEquals ==
    /\ calls = 0
    /\ ret' = DeepEquals(heap, argL, argR)
    /\ Called("DeepEquals")
    /\ UNCHANGED <<heap, msg>>

NextAlgebra ==
    \/ CallFitIn
    \/ CallFitInMaxUndef
    \/ CallAdd
    \/ CallSub
    \/ CallSubEliminateNegative
    \/ CallSubErrorNegative
    \/ CallEquals
    \/ CallDeepEquals

SpecAlgebra == InitAlgebra /\ [][NextAlgebra]_vars

\* the map of the vector at p as the caller passed it, nil read as empty
In(p) == IF p = Nil THEN EmptyMap ELSE orig[p]

\* C5: larger.FitIn(smaller) iff max(0, larger[k]) >= smaller[k] for every key
\* k of smaller, a key absent from larger (or a nil larger) counted as 0;
\* FitInMaxUndef iff the same holds for the keys of smaller that larger has;
\* a nil smaller fits in both; hence FitIn implies FitInMaxUndef.
C5_FitIn ==
    /\ call = "FitIn" =>
          /\ ret = \A k \in DOMAIN In(argR) : Max(0, Get(In(argL), k)) >= In(argR)[k]
          /\ ret => FitInMaxUndef(heap, argL, argR)
          /\ argR = Nil => ret
    /\ call = "FitInMaxUndef" =>
          /\ ret = \A k \in DOMAIN In(argR) \cap DOMAIN In(argL) :
                      Max(0, In(argL)[k]) >= In(argR)[k]
          /\ argR = Nil => ret

\* FitInMaxUndef({cpu: 2}, {memory: 2}) holds and FitIn of the same does not
C5_Witness ==
    /\ call = "FitInMaxUndef" /\ ret
    /\ argL # Nil /\ argR # Nil
    /\ In(argL) = [k \in {"cpu"} |-> 2]
    /\ In(argR) = [k \in {"memory"} |-> 2]
    /\ ~FitIn(heap, argL, argR)

\* the value of Sub(left, right) for key k
SubValue(k) == subVal(Get(In(argL), k), Get(In(argR), k))

\* C6: SubErrorNegative(left, right) and SubEliminateNegative(left, right)
\* return the vector of Sub(left, right) with every value below 0 raised to 0,
\* so no value of it is negative; SubErrorNegative returns an error iff a
\* value of Sub(left, right) is negative, and it names every such type.
C6_SubNonNegative ==
    call \in {"SubErrorNegative", "SubEliminateNegative"} =>
        /\ ret # Nil
        /\ DOMAIN heap[ret] = DOMAIN In(argL) \cup DOMAIN In(argR)
        /\ \A k \in DOMAIN heap[ret] : heap[ret][k] = Max(0, SubValue(k))
        /\ \A k \in DOMAIN heap[ret] : heap[ret][k] >= 0
        /\ call = "SubErrorNegative" =>
              /\ msg # Nil <=> \E k \in DOMAIN heap[ret] : SubValue(k) < 0
              /\ msg # Nil =>
                    {msg[2][i] : i \in 1..Len(msg[2])} =
                        {k \in DOMAIN heap[ret] : SubValue(k) < 0}

\* C7: Add(a, b) and Add(b, a) are DeepEquals: the key set of each is the
\* union of the keys of a and b and they agree on every key, also for nil
\* operands and for sums that saturate.
C7_AddCommutes ==
    call = "Add" =>
        LET rev == Add(heap, argR, argL)
        IN  /\ DeepEquals(rev.h, ret, rev.p)
            /\ DOMAIN heap[ret] = DOMAIN In(argL) \cup DOMAIN In(argR)
            /\ DOMAIN rev.h[rev.p] = DOMAIN heap[ret]
            /\ \A k \in DOMAIN heap[ret] : heap[ret][k] = rev.h[rev.p][k]

\* a saturating sum on one key, a key of one operand only on the other
C7_Witness ==
    /\ call = "Add" /\ argL # Nil /\ argR # Nil /\ argL # argR
    /\ DOMAIN In(argL) = Keys /\ DOMAIN In(argR) = {"cpu"}
    /\ In(argL)["cpu"] = MaxInt64 /\ In(argR)["cpu"] = 2
    /\ heap[ret]["cpu"] = MaxInt64

----------------------------------------------------------------------------
(* SpecCapacity: one call of CalculateAbsUsedCapacity(capacity, used) with *)
(* capacity in argL and used in argR.                                      *)

\* capacities and usages: none, negative, and ratios above and below 100 %
CapVals == {-1, 0, 5, 29, 100, 1000}

InitCapacity ==
    /\ \E lkind \in {"nil", "zero", "own"}, rkind \in {"nil", "zero", "same", "own"} :
          \E lmap \in (IF lkind = "own" THEN Maps(CapVals) ELSE {EmptyMap}),
             rmap \in (IF rkind = "own" THEN Maps(CapVals) ELSE {EmptyMap}) :
                InitArgs(lkind, lmap, rkind, rmap)
    /\ iter \in Orders
    /\ argA = 0
    /\ argB = 0
    /\ argF = [n |-> 0, k |-> 0]
    /\ goarch = "amd64"
    /\ argT = Nil
    /\ call = ""
    /\ ret = Nil
    /\ msg = Nil
    /\ calls = 0
    /\ orig = heap

CallCalculateAbsUsedCapacity ==
    /\ calls = 0
    /\ LET res == CalculateAbsUsedCapacity(heap, argL, argR)
       IN  heap' = res.h /\ ret' = res.p
    /\ Called("CalculateAbsUsedCapacity")
    /\ UNCHANGED msg

NextCapacity == CallCalculateAbsUsedCapacity

SpecCapacity == InitCapacity /\ [][NextCapacity]_vars

\* C10: CalculateAbsUsedCapacity(capacity, usage) returns a non nil vector
\* whose keys are the keys of both capacity and usage (none when either is
\* nil) and whose value for a key is 0 when usage <= 0, otherwise 100 when
\* capacity <= 0, otherwise usage * 100 / capacity truncated toward zero and
\* capped at MaxInt32; so every value lies in 0..MaxInt32.
C10_AbsUsedCapacity ==
    call = "CalculateAbsUsedCapacity" =>
        /\ ret # Nil
        /\ DOMAIN heap[ret] =
              (IF argL = Nil \/ argR = Nil THEN {}
               ELSE DOMAIN In(argL) \cap DOMAIN In(argR))
        /\ \A k \in DOMAIN heap[ret] :
              LET usage == In(argR)[k]
                  capacity == In(argL)[k]
              IN  /\ heap[ret][k] =
                        (IF usage <= 0 THEN 0
                         ELSE IF capacity <= 0 THEN 100
                         ELSE Min(MaxInt32, (usage * 100) \div capacity))
                  /\ heap[ret][k] \in 0..MaxInt32

----------------------------------------------------------------------------
(* Spec: a caller that owns the vectors at argL and argR makes up to       *)
(* MaxCalls calls and holds on to the vector the last of them returned.    *)
(* The arguments of a call are nil, Zero, the caller's two vectors or the  *)
(* vector held; the mutators AddTo, SubFrom, MultiplyTo and Prune are      *)
(* applied to the vector held.                                             *)

MaxCalls == 2

\* the caller's two vectors
OwnedLeft == [k \in {"cpu"} |-> 2]

OwnedRight == [k \in Keys |-> IF k = "cpu" THEN MinInt64 ELSE 0]

\* the int64 ratios of Multiply and the float64 ratios of MultiplyBy and MultiplyTo
IntRatios == {0, -1, 2}

FloatRatios == {[n |-> 1, k |-> 1], [n |-> -1, k |-> 0]}

Init ==
    /\ heap = <<EmptyMap, OwnedLeft, OwnedRight>>
    /\ argL = 2
    /\ argR = 3
    /\ iter \in Orders
    /\ argA = 0
    /\ argB = 0
    /\ argF = [n |-> 0, k |-> 0]
    /\ goarch \in GoArchs
    /\ argT = Nil
    /\ call = ""
    /\ ret = Nil
    /\ msg = Nil
    /\ calls = 0
    /\ orig = heap

\* the functions that return a vector, and the mutators
NewVectorCalls ==
    {"Clone", "Multiply", "MultiplyBy", "SubErrorNegative",
     "Add", "Sub", "SubOnlyExisting",
     "AddOnlyExisting", "SubEliminateNegative", "ComponentWiseMin",
     "ComponentWiseMax", "ComponentWiseMinOnlyExisting", "MergeIfNotPresent",
     "CalculateAbsUsedCapacity"}

MutatorCalls == {"AddTo", "SubFrom", "MultiplyTo", "Prune"}

\* the caller holds a vector that a call returned
Holds == call \in NewVectorCalls \cup MutatorCalls /\ ret # Nil

\* what a call can be given: nil, Zero, the caller's vectors and the vector held
Args == {Nil, Zero, argL, argR} \cup (IF Holds THEN {ret} ELSE {})

DoClone ==
    /\ calls < MaxCalls
    /\ \E r \in Args :
          LET res == Clone(heap, r)
          IN  heap' = res.h /\ ret' = res.p
    /\ Called("Clone")
    /\ UNCHANGED msg

DoAdd ==
    /\ calls < MaxCalls
    /\ \E left, right \in Args :
          LET res == Add(heap, left, right)
          IN  heap' = res.h /\ ret' = res.p
    /\ Called("Add")
    /\ UNCHANGED msg

DoSub ==
    /\ calls < MaxCalls
    /\ \E left, right \in Args :
          LET res == Sub(heap, left, right)
          IN  heap' = res.h /\ ret' = res.p
    /\ Called("Sub")
    /\ UNCHANGED msg

DoSubOnlyExisting ==
    /\ calls < MaxCalls
    /\ \E left, right \in Args :
          LET res == SubOnlyExisting(heap, left, right)
          IN  heap' = res.h /\ ret' = res.p
    /\ Called("SubOnlyExisting")
    /\ UNCHANGED msg

DoAddOnlyExisting ==
    /\ calls < MaxCalls
    /\ \E left, right \in Args :
          LET res == AddOnlyExisting(heap, left, right)
          IN  heap' = res.h /\ ret' = res.p
    /\ Called("AddOnlyExisting")
    /\ UNCHANGED msg

DoSubEliminateNegative ==
    /\ calls < MaxCalls
    /\ \E left, right \in Args :
          LET res == SubEliminateNegative(heap, left, right)
          IN  heap' = res.h /\ ret' = res.p
    /\ Called("SubEliminateNegative")
    /\ UNCHANGED msg

DoComponentWiseMin ==
    /\ calls < MaxCalls
    /\ \E left, right \in Args :
          LET res == ComponentWiseMin(heap, left, right)
          IN  heap' = res.h /\ ret' = res.p
    /\ Called("ComponentWiseMin")
    /\ UNCHANGED msg

DoComponentWiseMax ==
    /\ calls < MaxCalls
    /\ \E left, right \in Args :
          LET res == ComponentWiseMax(heap, left, right)
          IN  heap' = res.h /\ ret' = res.p
    /\ Called("ComponentWiseMax")
    /\ UNCHANGED msg

DoComponentWiseMinOnlyExisting ==
    /\ calls < MaxCalls
    /\ \E left, right \in Args :
          LET res == ComponentWiseMinOnlyExisting(heap, left, right)
          IN  heap' = res.h /\ ret' = res.p
    /\ Called("ComponentWiseMinOnlyExisting")
    /\ UNCHANGED msg

DoMergeIfNotPresent ==
    /\ calls < MaxCalls
    /\ \E left, right \in Args :
          LET res == MergeIfNotPresent(heap, left, right)
          IN  heap' = res.h /\ ret' = res.p
    /\ Called("MergeIfNotPresent")
    /\ UNCHANGED msg

DoCalculateAbsUsedCapacity ==
    /\ calls < MaxCalls
    /\ \E left, right \in Args :
          LET res == CalculateAbsUsedCapacity(heap, left, right)
          IN  heap' = res.h /\ ret' = res.p
    /\ Called("CalculateAbsUsedCapacity")
    /\ UNCHANGED msg

DoSubErrorNegative ==
    /\ calls < MaxCalls
    /\ \E left, right \in Args :
          LET res == SubErrorNegative(heap, left, right)
          IN  heap' = res.h /\ ret' = res.p /\ msg' = res.err
    /\ Called("SubErrorNegative")

DoMultiply ==
    /\ calls < MaxCalls
    /\ \E base \in Args, ratio \in IntRatios :
          LET res == Multiply(heap, base, ratio)
          IN  heap' = res.h /\ ret' = res.p
    /\ Called("Multiply")
    /\ UNCHANGED msg

DoMultiplyBy ==
    /\ calls < MaxCalls
    /\ \E base \in Args, ratio \in FloatRatios :
          LET res == MultiplyBy(heap, base, ratio)
          IN  heap' = res.h /\ ret' = res.p
    /\ Called("MultiplyBy")
    /\ UNCHANGED msg

DoFitIn ==
    /\ calls < MaxCalls
    /\ \E left, right \in Args : ret' = FitIn(heap, left, right)
    /\ Called("FitIn")
    /\ UNCHANGED <<heap, msg>>

DoFitInMaxUndef ==
    /\ calls < MaxCalls
    /\ \E left, right \in Args : ret' = FitInMaxUndef(heap, left, right)
    /\ Called("FitInMaxUndef")
    /\ UNCHANGED <<heap, msg>>

DoEquals ==
    /\ calls < MaxCalls
    /\ \E left, right \in Args : ret' = Equals(heap, left, right)
    /\ Called("Equals")
    /\ UNCHANGED <<heap, msg>>

DoDeepEquals ==
    /\ calls < MaxCalls
    /\ \E left, right \in Args : ret' = DeepEquals(heap, left, right)
    /\ Called("DeepEquals")
    /\ UNCHANGED <<heap, msg>>

DoMatchAny ==
    /\ calls < MaxCalls
    /\ \E left, right \in Args : ret' = MatchAny(heap, left, right)
    /\ Called("MatchAny")
    /\ UNCHANGED <<heap, msg>>

DoEqualsOrEmpty ==
    /\ calls < MaxCalls
    /\ \E left, right \in Args : ret' = EqualsOrEmpty(heap, left, right)
    /\ Called("EqualsOrEmpty")
    /\ UNCHANGED <<heap, msg>>

DoStrictlyGreaterThan ==
    /\ calls < MaxCalls
    /\ \E left, right \in Args : ret' = StrictlyGreaterThan(heap, left, right)
    /\ Called("StrictlyGreaterThan")
    /\ UNCHANGED <<heap, msg>>

DoStrictlyGreaterThanOrEquals ==
    /\ calls < MaxCalls
    /\ \E left, right \in Args : ret' = StrictlyGreaterThanOrEquals(heap, left, right)
    /\ Called("StrictlyGreaterThanOrEquals")
    /\ UNCHANGED <<heap, msg>>

DoStrictlyGreaterThanOnlyExisting ==
    /\ calls < MaxCalls
    /\ \E left, right \in Args : ret' = StrictlyGreaterThanOnlyExisting(heap, left, right)
    /\ Called("StrictlyGreaterThanOnlyExisting")
    /\ UNCHANGED <<heap, msg>>

DoStrictlyGreaterThanZero ==
    /\ calls < MaxCalls
    /\ \E r \in Args : ret' = StrictlyGreaterThanZero(heap, r)
    /\ Called("StrictlyGreaterThanZero")
    /\ UNCHANGED <<heap, msg>>

DoIsZero ==
    /\ calls < MaxCalls
    /\ \E r \in Args : ret' = IsZero(heap, r)
    /\ Called("IsZero")
    /\ UNCHANGED <<heap, msg>>

DoIsEmpty ==
    /\ calls < MaxCalls
    /\ \E r \in Args : ret' = IsEmpty(heap, r)
    /\ Called("IsEmpty")
    /\ UNCHANGED <<heap, msg>>

DoHasNegativeValue ==
    /\ calls < MaxCalls
    /\ \E r \in Args : ret' = HasNegativeValue(heap, r)
    /\ Called("HasNegativeValue")
    /\ UNCHANGED <<heap, msg>>

DoAddTo ==
    /\ calls < MaxCalls
    /\ Holds
    /\ \E add \in Args : heap' = AddTo(heap, ret, add)
    /\ Called("AddTo")
    /\ UNCHANGED <<ret, msg>>

DoSubFrom ==
    /\ calls < MaxCalls
    /\ Holds
    /\ \E sub \in Args : heap' = SubFrom(heap, ret, sub)
    /\ Called("SubFrom")
    /\ UNCHANGED <<ret, msg>>

DoMultiplyTo ==
    /\ calls < MaxCalls
    /\ Holds
    /\ \E ratio \in FloatRatios : heap' = MultiplyTo(heap, ret, ratio)
    /\ Called("MultiplyTo")
    /\ UNCHANGED <<ret, msg>>

DoPrune ==
    /\ calls < MaxCalls
    /\ Holds
    /\ heap' = Prune(heap, ret)
    /\ Called("Prune")
    /\ UNCHANGED <<ret, msg>>

Next ==
    \/ DoClone
    \/ DoAdd
    \/ DoSub
    \/ DoSubOnlyExisting
    \/ DoAddOnlyExisting
    \/ DoSubEliminateNegative
    \/ DoComponentWiseMin
    \/ DoComponentWiseMax
    \/ DoComponentWiseMinOnlyExisting
    \/ DoMergeIfNotPresent
    \/ DoCalculateAbsUsedCapacity
    \/ DoSubErrorNegative
    \/ DoMultiply
    \/ DoMultiplyBy
    \/ DoFitIn
    \/ DoFitInMaxUndef
    \/ DoEquals
    \/ DoDeepEquals
    \/ DoMatchAny
    \/ DoEqualsOrEmpty
    \/ DoStrictlyGreaterThan
    \/ DoStrictlyGreaterThanOrEquals
    \/ DoStrictlyGreaterThanOnlyExisting
    \/ DoStrictlyGreaterThanZero
    \/ DoIsZero
    \/ DoIsEmpty
    \/ DoHasNegativeValue
    \/ DoAddTo
    \/ DoSubFrom
    \/ DoMultiplyTo
    \/ DoPrune

Spec == Init /\ [][Next]_vars

\* C8: whatever the calls, Zero has no entries and the caller's two vectors
\* have the keys and values they had; and a call that returns a vector
\* returns one that did not exist before the call, so it shares storage with
\* no argument of the call and not with Zero.
C8_InputsNotMutated ==
    /\ [](heap[Zero] = EmptyMap /\ heap[argL] = orig[argL] /\ heap[argR] = orig[argR])
    /\ [][call' \in NewVectorCalls /\ ret' # Nil => ret' \notin 1..Len(heap)]_vars

\* a returned vector with the keys of the caller's first vector has been
\* mutated in place to other values
C8_Witness ==
    /\ call = "AddTo" /\ Holds /\ ret \notin {Zero, argL, argR}
    /\ DOMAIN heap[ret] = DOMAIN orig[argL]
    /\ heap[ret] # orig[argL]
    /\ heap[argL] = orig[argL]

----------------------------------------------------------------------------
(* SpecCompare: one call of a function that compares or combines the       *)
(* vectors argL and argR, from the initial states of SpecAlgebra.          *)

CallDominantResourceType ==
    /\ calls = 0
    /\ ret' = DominantResourceType(heap, argL, argR)
    /\ Called("DominantResourceType")
    /\ UNCHANGED <<heap, msg>>

CallFitInScore ==
    /\ calls = 0
    /\ ret' = FitInScore(heap, argL, argR)
    /\ Called("FitInScore")
    /\ UNCHANGED <<heap, msg>>

CallComponentWiseMin ==
    /\ calls = 0
    /\ LET res == ComponentWiseMin(heap, argL, argR)
       IN  heap' = res.h /\ ret' = res.p
    /\ Called("ComponentWiseMin")
    /\ UNCHANGED msg

CallComponentWiseMax ==
    /\ calls = 0
    /\ LET res == ComponentWiseMax(heap, argL, argR)
       IN  heap' = res.h /\ ret' = res.p
    /\ Called("ComponentWiseMax")
    /\ UNCHANGED msg

CallStrictlyGreaterThanOnlyExisting ==
    /\ calls = 0
    /\ ret' = StrictlyGreaterThanOnlyExisting(heap, argL, argR)
    /\ Called("StrictlyGreaterThanOnlyExisting")
    /\ UNCHANGED <<heap, msg>>

NextCompare ==
    \/ CallDominantResourceType
    \/ CallFitInScore
    \/ CallComponentWiseMin
    \/ CallComponentWiseMax
    \/ CallStrictlyGreaterThanOnlyExisting

SpecCompare == InitAlgebra /\ [][NextCompare]_vars

\* the ratio of usage u to capacity c as the fraction n / d with d > 0
ExactRatio(u, c) ==
    IF c = 0 THEN [n |-> IF u = 0 THEN 0 ELSE 1, d |-> 1]
    ELSE IF c > 0 THEN [n |-> u, d |-> c]
    ELSE [n |-> -u, d |-> -c]

RatioLeq(a, b) == a.n * b.d <= b.n * a.d

\* C11: for non nil usage and capacity that share a key,
\* usage.DominantResourceType(capacity) is a shared key whose ratio
\* usage[k] / capacity[k] (1 for capacity 0 with usage, 0 for both 0) is the
\* largest of the shared keys; it is "" only when usage or capacity is nil
\* or they share no key.
C11_DominantIsLargest ==
    call = "DominantResourceType" =>
        LET shared == DOMAIN In(argL) \cap DOMAIN In(argR)
        IN  /\ argL # Nil /\ argR # Nil /\ shared # {} =>
                  /\ ret \in shared
                  /\ \A k \in shared :
                        RatioLeq(ExactRatio(In(argL)[k], In(argR)[k]),
                                 ExactRatio(In(argL)[ret], In(argR)[ret]))
            /\ ret = "" => argL = Nil \/ argR = Nil \/ shared = {}

\* the number of resource types in fit, none for a nil fit
FitTypes == Cardinality(DOMAIN In(argR))

\* C12 as stated: r.FitInScore(fit) is 0 exactly when r.FitIn(fit), and the
\* score lies between 0 and the number of resource types in fit.
C12_ScoreZeroIffFitIn ==
    call = "FitInScore" =>
        /\ ret.n = 0 <=> FitIn(heap, argL, argR)
        /\ 0 <= ret.n /\ ret.n <= FitTypes * ret.d

\* C12 amended: a score of 0 is a fit, and for a non nil r a fit scores 0; a
\* nil r scores the number of resource types in fit, also when it fits; the
\* score lies between 0 and the number of resource types in fit.
C12_ScoreZeroIsFit ==
    call = "FitInScore" =>
        /\ ret.n = 0 => FitIn(heap, argL, argR)
        /\ argL # Nil => (FitIn(heap, argL, argR) => ret.n = 0)
        /\ argL = Nil => ret = Score(FitTypes)
        /\ 0 <= ret.n /\ ret.n <= FitTypes * ret.d

\* nil.FitInScore({cpu: -1}) is 1 and nil.FitIn({cpu: -1}) holds
C12_Witness ==
    /\ call = "FitInScore" /\ argL = Nil /\ argR # Nil
    /\ In(argR) = [k \in {"cpu"} |-> -1]
    /\ ret = Score(1)
    /\ FitIn(heap, argL, argR)

\* the value the stated rule gives key k: the larger (smaller) of the two
\* values when both vectors have k, the value of the one that has it otherwise
OneSided(k) == IF k \in DOMAIN In(argL) THEN In(argL)[k] ELSE In(argR)[k]

BothHave(k) == k \in DOMAIN In(argL) /\ k \in DOMAIN In(argR)

\* what holds of both functions: the key set for non nil l and r, the rule
\* of ComponentWiseMin, and the results for two nil inputs
MinMaxCommon ==
    /\ call \in {"ComponentWiseMin", "ComponentWiseMax"} /\ argL # Nil /\ argR # Nil =>
          /\ ret # Nil
          /\ DOMAIN heap[ret] = DOMAIN In(argL) \cup DOMAIN In(argR)
    /\ call = "ComponentWiseMin" /\ argL # Nil /\ argR # Nil =>
          \A k \in DOMAIN heap[ret] :
              heap[ret][k] = IF BothHave(k) THEN Min(In(argL)[k], In(argR)[k])
                             ELSE OneSided(k)
    /\ call = "ComponentWiseMin" /\ argL = Nil /\ argR = Nil => ret = Nil
    /\ call = "ComponentWiseMax" /\ argL = Nil /\ argR = Nil =>
          ret # Nil /\ heap[ret] = EmptyMap

\* C13 as stated: for non nil l and r, ComponentWiseMax(l, r) has the keys
\* of l and r; a key of both has the larger value and a key of one side only
\* that side's value as it is.  ComponentWiseMin is the same with the
\* smaller value.  For two nil inputs ComponentWiseMin is nil and
\* ComponentWiseMax is an empty non nil vector.
C13_MinMaxOneSidedAsIs ==
    /\ MinMaxCommon
    /\ call = "ComponentWiseMax" /\ argL # Nil /\ argR # Nil =>
          \A k \in DOMAIN heap[ret] :
              heap[ret][k] = IF BothHave(k) THEN Max(In(argL)[k], In(argR)[k])
                             ELSE OneSided(k)

\* C13 amended: as stated, but a key of one side only has in
\* ComponentWiseMax the larger of that side's value and 0.
C13_MaxReadsAbsentAsZero ==
    /\ MinMaxCommon
    /\ call = "ComponentWiseMax" /\ argL # Nil /\ argR # Nil =>
          \A k \in DOMAIN heap[ret] :
              heap[ret][k] = IF BothHave(k) THEN Max(In(argL)[k], In(argR)[k])
                             ELSE Max(OneSided(k), 0)

\* ComponentWiseMax({cpu: -1}, {memory: 2}) is {cpu: 0, memory: 2}
C13_Witness ==
    /\ call = "ComponentWiseMax" /\ argL # Nil /\ argR # Nil
    /\ In(argL) = [k \in {"cpu"} |-> -1]
    /\ In(argR) = [k \in {"memory"} |-> 2]
    /\ heap[ret] = [k \in Keys |-> IF k = "cpu" THEN 0 ELSE 2]

C15_TypesNotInLargerIgnored ==
    call = "StrictlyGreaterThanOnlyExisting" =>
        \A s2 \in Maps(VecVals) :
            (\A k \in DOMAIN In(argL) :
                /\ k \in DOMAIN s2 <=> k \in DOMAIN In(argR)
                /\ k \in DOMAIN s2 => s2[k] = In(argR)[k])
            => LET n == NewWith(heap, s2)
               IN  StrictlyGreaterThanOnlyExisting(n.h, argL, n.p) = ret

----------------------------------------------------------------------------
(* SpecShares: one call of a share function on the vectors argL and argR   *)
(* with the total argT, each of them nil or a vector of the caller's.      *)

\* the quantities of the vectors and of the total
ShareVals == {-1, 0, 2}

TotalVals == {-1, 0, 2}

\* a vector of the caller's with one of the maps, or nil
Choices(maps) == {<<m>> : m \in maps} \cup {<< >>}

InitShares ==
    /\ \E l, r \in Choices(Maps(ShareVals)), t \in Choices(Maps(TotalVals)) :
          /\ heap = <<EmptyMap>> \o l \o r \o t
          /\ argL = IF l = << >> THEN Nil ELSE 2
          /\ argR = IF r = << >> THEN Nil ELSE 2 + Len(l)
          /\ argT = IF t = << >> THEN Nil ELSE 2 + Len(l) + Len(r)
    /\ iter \in Orders
    /\ argA = 0
    /\ argB = 0
    /\ argF = [n |-> 0, k |-> 0]
    /\ goarch = "amd64"
    /\ call = ""
    /\ ret = Nil
    /\ msg = Nil
    /\ calls = 0
    /\ orig = heap

CallGetShares ==
    /\ calls = 0
    /\ ret' = getShares(heap, argL, argT)
    /\ Called("getShares")
    /\ UNCHANGED <<heap, msg>>

\* compareShares on the shares of argL of the total and the raw shares of argR
CallCompareShares ==
    /\ calls = 0
    /\ ret' = compareShares(getShares(heap, argL, argT), getShares(heap, argR, Nil))
    /\ Called("compareShares")
    /\ UNCHANGED <<heap, msg>>

CallCompUsageRatio ==
    /\ calls = 0
    /\ ret' = CompUsageRatio(heap, argL, argR, argT)
    /\ Called("CompUsageRatio")
    /\ UNCHANGED <<heap, msg>>

CallFairnessRatio ==
    /\ calls = 0
    /\ ret' = FairnessRatio(heap, argL, argR, argT)
    /\ Called("FairnessRatio")
    /\ UNCHANGED <<heap, msg>>

NextShares ==
    \/ CallGetShares
    \/ CallCompareShares
    \/ CallCompUsageRatio
    \/ CallFairnessRatio

SpecShares == InitShares /\ [][NextShares]_vars

\* the share of the value v of key k of the total argT
ShareOf(v, k) ==
    IF argT = Nil \/ Get(In(argT), k) = 0 THEN Float64(v)
    ELSE Float64Quo(v, In(argT)[k])

\* shares has, in some order, exactly the element share[k] for each k of keys
OneShareEach(shares, keys, share(_)) ==
    /\ Len(shares) = Cardinality(keys)
    /\ \E f \in [keys -> 1..Len(shares)] :
          /\ \A j, k \in keys : j # k => f[j] # f[k]
          /\ \A k \in keys : shares[f[k]] = share(k)

Ascending(shares) ==
    \A i \in 1..(Len(shares) - 1) : ~Float64Less(shares[i + 1], shares[i])

\* C16 as stated: getShares(res, total) is sorted ascending and has exactly
\* one element for each key of res with a non zero value, the value divided
\* by total[k] or the value itself when total is nil or total[k] is 0, and
\* none for a key with the value 0: its length is the number of non zero
\* entries of res.
C16_ZeroEntriesSkipped ==
    call = "getShares" =>
        LET res == In(argL)
            used == {k \in DOMAIN res : res[k] # 0}
        IN  /\ Ascending(ret)
            /\ OneShareEach(ret, used, LAMBDA k : ShareOf(res[k], k))
            /\ Len(ret) = Cardinality(used)

\* C16 amended: getShares(res, total) is sorted ascending and has exactly
\* one element for each key of res: the share of a non zero value as stated
\* and 0 for a value of 0; its length is the number of entries of res.
C16_OneSharePerEntry ==
    call = "getShares" =>
        LET res == In(argL)
        IN  /\ Ascending(ret)
            /\ OneShareEach(ret, DOMAIN res,
                            LAMBDA k : IF res[k] = 0 THEN Float64Zero
                                       ELSE ShareOf(res[k], k))
            /\ Len(ret) = Cardinality(DOMAIN res)

\* getShares({cpu: -1, memory: 0}, nil) is the two shares -1 and 0
C16_Witness ==
    /\ call = "getShares" /\ argL # Nil /\ argT = Nil
    /\ In(argL) = [k \in Keys |-> IF k = "cpu" THEN -1 ELSE 0]
    /\ ret = <<Float64(-1), Float64Zero>>

\* C17: FairnessRatio(left, right, total) is the largest share of left
\* divided by the largest share of right; when the largest share of right
\* is 0 (right nil, empty or all zero too) the result is 1 whatever the
\* largest share of left is; the result is never not-a-number.
C17_ZeroRightShareGivesOne ==
    call = "FairnessRatio" =>
        LET lshare == LargestShare(getShares(heap, argL, argT))
            rshare == LargestShare(getShares(heap, argR, argT))
        IN  /\ rshare.s = 0 => ret = [class |-> "one"]
            /\ rshare.s # 0 => ret = [class |-> "quotient", num |-> lshare, den |-> rshare]
            /\ ret.class \in {"one", "inf", "quotient"}

\* C18: CompUsageRatio(l, r, total) = -CompUsageRatio(r, l, total) and
\* CompUsageRatio(l, l, total) = 0 for all l, r and total, nil included; and
\* compareShares(ls, rs) = -compareShares(rs, ls) for sorted lists of shares
\* of any two lengths.
C18_ComparatorAntisymmetric ==
    /\ call = "CompUsageRatio" =>
          /\ ret \in {-1, 0, 1}
          /\ ret = -CompUsageRatio(heap, argR, argL, argT)
          /\ CompUsageRatio(heap, argL, argL, argT) = 0
    /\ call = "compareShares" =>
          /\ ret \in {-1, 0, 1}
          /\ ret = -compareShares(getShares(heap, argR, Nil),
                                  getShares(heap, argL, argT))

\* compareShares of the one share 2 and the shares -1 and 2 is 1: the share
\* left over on the right is below 0
C18_Witness ==
    /\ call = "compareShares" /\ ret = 1
    /\ argL # Nil /\ argR # Nil /\ argT = Nil
    /\ In(argL) = [k \in {"cpu"} |-> 2]
    /\ In(argR) = [k \in Keys |-> IF k = "cpu" THEN -1 ELSE 2]

====
